---- MODULE Spec2Model ----
(***************************************************************************)
(* LearnHub API (src/main.py): the handlers of the auth, progress, quiz /  *)
(* certificate and chatbot modules over the document store.                *)
(*                                                                         *)
(* Each collection of the store is a variable.  A store call (find_one,    *)
(* insert_one, update_one, find) is atomic; a handler whose claims are     *)
(* about interleavings (register, update_lecture_progress) is one action   *)
(* per store call, the others are one action per handler.  Requests are    *)
(* issued by the processes Procs; resp is the HTTP exchange the last step  *)
(* completed (the request as sent, the status and the body returned), or   *)
(* NoResponse after a step that completed none.                            *)
(*                                                                         *)
(* Document fields no modelled handler reads (name, interests, roles,      *)
(* is_active, created_at, updated_at, titles, urls) are left out of the    *)
(* documents.  An ObjectId is the position of the document in its          *)
(* collection; str(_id) is that same number.                               *)
(***************************************************************************)
EXTENDS Integers, Sequences, FiniteSets, TLC

VARIABLES user, tokens, now, course, lectureprogress, courseprogress,
          quizresult, certificate, chatlog, pc, loc, resp

vars == <<user, tokens, now, course, lectureprogress, courseprogress,
          quizresult, certificate, chatlog, pc, loc, resp>>

---------------------------------------------------------------------------
(* Bounds of the model *)

MaxUsers == 2
MaxTokens == 2
MaxTicks == 3
MaxLectures == 3
MaxQuestions == 2
MaxRows == 3
MaxResults == 2
MaxChatLog == 2

(* Program constants *)

TOKEN_TTL_HOURS == 48

(* The clock is read in hours and advances half a token lifetime at a time *)
ClockStep == TOKEN_TTL_HOURS \div 2

Procs == {1, 2}
Emails == {"a@x.io", "b@x.io"}
Passwords == {"pw1", "pw2"}
Salts == {"5a17", "c0de"}

(* Authorization headers: 0 is a missing or non-bearer header, 1..MaxTokens *)
(* are the token strings uuid4 hands out (in order of issue, all distinct), *)
(* MaxTokens + 1 is a bearer string that was never issued.                  *)
Authorizations == 0..(MaxTokens + 1)

(* Ids given in paths and bodies: "c1" is the ObjectId of the first course  *)
(* document, "c2" a well-formed ObjectId of no document, "zz" is not an      *)
(* ObjectId.                                                                *)
CourseIdStrings == {"c1", "c2", "zz"}

---------------------------------------------------------------------------
(* Helpers *)

Response(p, op, req, status, body) ==
    [p |-> p, op |-> op, req |-> req, status |-> status, body |-> body]

NoResponse == Response(0, "none", [none |-> ""], 0, [detail |-> ""])

HTTPException(p, op, req, status, detail) ==
    Response(p, op, req, status, [detail |-> detail])

\* ObjectId(id_str) raises for a string that is no ObjectId; oid turns that into 400.
oid(id_str) ==
    IF id_str \in {"c1", "c2"}
    THEN [ok |-> TRUE, id |-> id_str]
    ELSE [ok |-> FALSE, id |-> "Invalid id"]

now_utc == now

\* db["course"].find_one({"_id": ...}): the documents found (none or one).
find_course(id) == {i \in DOMAIN course : course[i].id = id}

\* sha256 is modelled as injective on (salt + password); the salt has a fixed width.
sha256(salt, password) == <<salt, password>>

hash_password(password, salt) ==
    [salt |-> salt, digest |-> sha256(salt, password)]

verify_password(password, password_hash) ==
    sha256(password_hash.salt, password) = password_hash.digest

require_auth(authorization) ==
    IF authorization = 0
    THEN [status |-> 401, detail |-> "Missing bearer token", id |-> 0]
    ELSE IF authorization \notin DOMAIN tokens
    THEN [status |-> 401, detail |-> "Invalid token", id |-> 0]
    ELSE IF tokens[authorization].expires_at < now_utc
    THEN [status |-> 401, detail |-> "Token expired", id |-> 0]
    ELSE IF tokens[authorization].user_id \notin DOMAIN user
    THEN [status |-> 401, detail |-> "User not found", id |-> 0]
    ELSE [status |-> 200, detail |-> "", id |-> tokens[authorization].user_id]

new_token(user_id) ==
    [user_id |-> user_id, expires_at |-> now_utc + TOKEN_TTL_HOURS]

Idle(p) == pc[p] = "idle"

\* The locals of a process with no request in flight.
NoLocals == [email |-> "", password |-> "", user_id |-> 0]

\* Requests in flight that will still insert a user / a token.
PendingUsers == Cardinality({q \in Procs : pc[q] = "register_insert_user"})
PendingTokens ==
    Cardinality({q \in Procs : pc[q] \in {"register_insert_user", "register_insert_token"}})

UnchangedContent ==
    UNCHANGED <<course, lectureprogress, courseprogress, quizresult, certificate, chatlog>>

\* All the collections of the store.
store == <<user, tokens, course, lectureprogress, courseprogress, quizresult,
           certificate, chatlog>>

---------------------------------------------------------------------------
(* Auth *)

\* register, first store call: existing = db["user"].find_one({"email": req.email})
register_find_one(p, email, password) ==
    /\ Idle(p)
    /\ \/ /\ \E i \in DOMAIN user : user[i].email = email
          /\ resp' = HTTPException(p, "register", [email |-> email], 400,
                                   "Email already registered")
          /\ UNCHANGED <<pc, loc>>
       \/ /\ ~ \E i \in DOMAIN user : user[i].email = email
          /\ Len(user) + PendingUsers < MaxUsers
          /\ Len(tokens) + PendingTokens < MaxTokens
          /\ pc' = [pc EXCEPT ![p] = "register_insert_user"]
          /\ loc' = [loc EXCEPT ![p] = [email |-> email, password |-> password, user_id |-> 0]]
          /\ resp' = NoResponse
    /\ UNCHANGED <<user, tokens, now>>
    /\ UnchangedContent

\* register, second store call: res = db["user"].insert_one(user_doc)
register_insert_user(p) ==
    /\ pc[p] = "register_insert_user"
    /\ \E salt \in Salts :
          user' = Append(user, [email |-> loc[p].email,
                                password_hash |-> hash_password(loc[p].password, salt)])
    /\ loc' = [loc EXCEPT ![p].user_id = Len(user) + 1]
    /\ pc' = [pc EXCEPT ![p] = "register_insert_token"]
    /\ resp' = NoResponse
    /\ UNCHANGED <<tokens, now>>
    /\ UnchangedContent

\* register, third store call: db["tokens"].insert_one(...), then the response
register_insert_token(p) ==
    /\ pc[p] = "register_insert_token"
    /\ tokens' = Append(tokens, new_token(loc[p].user_id))
    /\ resp' = Response(p, "register", [email |-> loc[p].email], 200,
                        [token |-> Len(tokens) + 1, id |-> loc[p].user_id,
                         email |-> loc[p].email])
    /\ pc' = [pc EXCEPT ![p] = "idle"]
    /\ loc' = [loc EXCEPT ![p] = NoLocals]
    /\ UNCHANGED <<user, now>>
    /\ UnchangedContent

\* db["user"].find_one({"email": ...}): the first document that matches.
find_user_by_email(email) ==
    LET found == {i \in DOMAIN user : user[i].email = email}
    IN  IF found = {} THEN 0 ELSE CHOOSE i \in found : \A j \in found : i <= j

login(p, email, password) ==
    /\ Idle(p)
    /\ LET u == find_user_by_email(email)
           verified == IF u = 0 THEN FALSE
                       ELSE verify_password(password, user[u].password_hash)
       IN
       \/ /\ ~ verified
          /\ resp' = HTTPException(p, "login", [email |-> email], 401, "Invalid credentials")
          /\ UNCHANGED tokens
       \/ /\ verified
          /\ Len(tokens) + PendingTokens < MaxTokens
          /\ tokens' = Append(tokens, new_token(u))
          /\ resp' = Response(p, "login", [email |-> email], 200,
                              [token |-> Len(tokens) + 1, id |-> u, email |-> user[u].email])
    /\ UNCHANGED <<user, now, pc, loc>>
    /\ UnchangedContent

me(p, authorization) ==
    /\ Idle(p)
    /\ LET auth == require_auth(authorization)
           req == [authorization |-> authorization]
       IN
       resp' = IF auth.status = 200
               THEN Response(p, "me", req, 200, [id |-> auth.id])
               ELSE HTTPException(p, "me", req, auth.status, auth.detail)
    /\ UNCHANGED <<user, tokens, now, pc, loc>>
    /\ UnchangedContent

\* datetime.now(timezone.utc) never goes back.
Tick ==
    /\ now + ClockStep <= MaxTicks * ClockStep
    /\ now' = now + ClockStep
    /\ resp' = NoResponse
    /\ UNCHANGED <<user, tokens, pc, loc>>
    /\ UnchangedContent

---------------------------------------------------------------------------
(* Courses & content *)

Lecture(i) == [id |-> i, title |-> <<"title", i>>]

Playlist(n) == [i \in 1..n |-> Lecture(i)]

Question(j) == [id |-> j, answer |-> 0]

Questions(k) == [j \in 1..k |-> Question(j)]

CourseDoc(n, k, threshold) ==
    [id |-> "c1",
     playlist |-> Playlist(n),
     quizzes |-> << [id |-> "q1", questions |-> Questions(k)] >>,
     certificate_threshold |-> threshold]

\* The demo course of seed_course_if_empty: lec1..lec3, quiz q1 with q1-1 and q1-2.
sample_course == CourseDoc(3, 2, 70)

seed_course_if_empty == IF Len(course) = 0 THEN << sample_course >> ELSE course

list_courses(p) ==
    /\ Idle(p)
    /\ course' = seed_course_if_empty
    /\ resp' = Response(p, "list_courses", [none |-> ""], 200, [items |-> course'])
    /\ UNCHANGED <<user, tokens, now, pc, loc>>
    /\ UNCHANGED <<lectureprogress, courseprogress, quizresult, certificate, chatlog>>

PlaylistIds(c) == {c.playlist[i].id : i \in DOMAIN c.playlist}

---------------------------------------------------------------------------
(* Progress *)

\* round() replaced by a truncation to two decimals.
Round2_truncating(num, den) == (num * 100) \div den

\* round(x, 2) of x = num / den, in hundredths: the nearest hundredth, a tie going
\* to the even one (no tie occurs for the playlists and quizzes of the model).
Round2(num, den) ==
    LET q == (num * 100) \div den
        r == (num * 100) % den
    IN  IF 2 * r > den THEN q + 1
        ELSE IF 2 * r < den THEN q
        ELSE IF q % 2 = 0 THEN q ELSE q + 1

\* len(xs) or 1
LenOr1(n) == IF n = 0 THEN 1 ELSE n

SameLecture(r, user_id, course_id, lecture_id) ==
    r.user_id = user_id /\ r.course_id = course_id /\ r.lecture_id = lecture_id

\* db["lectureprogress"].update_one({user_id, course_id, lecture_id}, {"$set": ...}, upsert=True)
upsert_lecture(rows, user_id, course_id, update) ==
    {r \in rows : ~ SameLecture(r, user_id, course_id, update.lecture_id)}
      \cup {[user_id |-> user_id, course_id |-> course_id,
             lecture_id |-> update.lecture_id,
             watched_seconds |-> update.watched_seconds,
             completed |-> update.completed]}

\* db["lectureprogress"].find({user_id, course_id, "completed": True}), the lecture ids
completed_lectures(user_id, course_id) ==
    {r.lecture_id : r \in {x \in lectureprogress :
                              /\ x.user_id = user_id
                              /\ x.course_id = course_id
                              /\ x.completed}}

percent_of(completed_ids, total_lectures) ==
    Round2(Cardinality(completed_ids) * 100, total_lectures)

\* The summary recomputed from the rows as they are when it is written.
summary_doc_reread(p) ==
    LET completed_ids == completed_lectures(loc[p].user_id, loc[p].course_id)
    IN  [user_id |-> loc[p].user_id, course_id |-> loc[p].course_id,
         completed_lecture_ids |-> completed_ids,
         percentage |-> percent_of(completed_ids, loc[p].total_lectures)]

\* The document the summary upsert $sets: what this request read and computed.
summary_doc(p) ==
    [user_id |-> loc[p].user_id, course_id |-> loc[p].course_id,
     completed_lecture_ids |-> loc[p].completed_ids,
     percentage |-> loc[p].percent]

\* db["courseprogress"].update_one({user_id, course_id}, {"$set": ...}, upsert=True)
upsert_summary(rows, doc) ==
    {r \in rows : ~ (r.user_id = doc.user_id /\ r.course_id = doc.course_id)} \cup {doc}

\* update_lecture_progress, first store call: the upsert of the lecture row
update_lecture_progress_upsert(p, authorization, course_id, update) ==
    /\ Idle(p)
    /\ LET auth == require_auth(authorization) IN
       \/ /\ auth.status # 200
          /\ resp' = HTTPException(p, "update", [user_id |-> 0, course_id |-> course_id],
                                   auth.status, auth.detail)
          /\ UNCHANGED <<lectureprogress, pc, loc>>
       \/ /\ auth.status = 200
          /\ \/ \E r \in lectureprogress : SameLecture(r, auth.id, course_id, update.lecture_id)
             \/ Cardinality(lectureprogress) < MaxRows
          /\ lectureprogress' = upsert_lecture(lectureprogress, auth.id, course_id, update)
          /\ pc' = [pc EXCEPT ![p] = "find_course"]
          /\ loc' = [loc EXCEPT ![p] =
                       [user_id |-> auth.id, course_id |-> course_id,
                        total_lectures |-> 0, completed_ids |-> {}, percent |-> 0]]
          /\ resp' = NoResponse
    /\ UNCHANGED <<user, tokens, now, course, courseprogress, quizresult, certificate, chatlog>>

\* update_lecture_progress, second store call: course = db["course"].find_one(...)
update_lecture_progress_find_course(p) ==
    /\ pc[p] = "find_course"
    /\ LET o == oid(loc[p].course_id)
           found == IF o.ok THEN find_course(o.id) ELSE {}
           req == [user_id |-> loc[p].user_id, course_id |-> loc[p].course_id]
       IN
       \/ /\ ~ o.ok
          /\ resp' = HTTPException(p, "update", req, 400, "Invalid id")
          /\ pc' = [pc EXCEPT ![p] = "idle"]
          /\ loc' = [loc EXCEPT ![p] = NoLocals]
       \/ /\ o.ok
          /\ found = {}
          /\ resp' = HTTPException(p, "update", req, 404, "Course not found")
          /\ pc' = [pc EXCEPT ![p] = "idle"]
          /\ loc' = [loc EXCEPT ![p] = NoLocals]
       \/ /\ o.ok
          /\ \E i \in found :
                loc' = [loc EXCEPT ![p].total_lectures = LenOr1(Len(course[i].playlist))]
          /\ pc' = [pc EXCEPT ![p] = "find_completed"]
          /\ resp' = NoResponse
    /\ UNCHANGED <<user, tokens, now, course, lectureprogress, courseprogress,
                   quizresult, certificate, chatlog>>

\* update_lecture_progress, third store call: the completed rows, and the percentage
update_lecture_progress_find_completed(p) ==
    /\ pc[p] = "find_completed"
    /\ LET completed_ids == completed_lectures(loc[p].user_id, loc[p].course_id) IN
       loc' = [loc EXCEPT ![p].completed_ids = completed_ids,
                          ![p].percent = percent_of(completed_ids, loc[p].total_lectures)]
    /\ pc' = [pc EXCEPT ![p] = "upsert_summary"]
    /\ resp' = NoResponse
    /\ UNCHANGED <<user, tokens, now, course, lectureprogress, courseprogress,
                   quizresult, certificate, chatlog>>

\* update_lecture_progress, fourth store call: the summary upsert, then the response
update_lecture_progress_upsert_summary(p) ==
    /\ pc[p] = "upsert_summary"
    /\ courseprogress' = upsert_summary(courseprogress, summary_doc(p))
    /\ resp' = Response(p, "update",
                        [user_id |-> loc[p].user_id, course_id |-> loc[p].course_id], 200,
                        [percentage |-> loc[p].percent, completed |-> loc[p].completed_ids])
    /\ pc' = [pc EXCEPT ![p] = "idle"]
    /\ loc' = [loc EXCEPT ![p] = NoLocals]
    /\ UNCHANGED <<user, tokens, now, course, lectureprogress, quizresult, certificate,
                   chatlog>>

\* prog = db["courseprogress"].find_one(...), or the zero-valued summary
course_progress_of(user_id, course_id) ==
    LET found == {r \in courseprogress : r.user_id = user_id /\ r.course_id = course_id}
    IN  IF found = {}
        THEN [user_id |-> user_id, course_id |-> course_id,
              completed_lecture_ids |-> {}, percentage |-> 0]
        ELSE CHOOSE r \in found : TRUE

get_course_progress(p, authorization, course_id) ==
    /\ Idle(p)
    /\ LET auth == require_auth(authorization)
           req == [user_id |-> auth.id, course_id |-> course_id]
       IN
       resp' = IF auth.status # 200
               THEN HTTPException(p, "get_course_progress", req, auth.status, auth.detail)
               ELSE Response(p, "get_course_progress", req, 200,
                             [course |-> course_id,
                              course_progress |-> course_progress_of(auth.id, course_id),
                              lectures |-> {r \in lectureprogress :
                                              /\ r.user_id = auth.id
                                              /\ r.course_id = course_id}])
    /\ UNCHANGED <<user, tokens, now, course, lectureprogress, courseprogress,
                   quizresult, certificate, chatlog, pc, loc>>

---------------------------------------------------------------------------
(* Quizzes & certificates *)

\* A submitted answer: an int, a value of another type, or no entry for the question.
IntAnswer(v) == [type |-> "int", value |-> v]
StrAnswer == [type |-> "str", value |-> 0]
NoAnswer == [type |-> "none", value |-> 0]

\* sub.answers.get(q["id"])
answer_of(answers, question_id) ==
    IF question_id \in DOMAIN answers THEN answers[question_id] ELSE NoAnswer

\* isinstance(ans_index, int) and ans_index == q.get("answer")
is_correct(answers, q) ==
    LET ans_index == answer_of(answers, q.id)
    IN  ans_index.type = "int" /\ ans_index.value = q.answer

count_correct(questions, answers) ==
    Cardinality({j \in DOMAIN questions : is_correct(answers, questions[j])})

score_of(questions, answers) ==
    Round2(count_correct(questions, answers) * 100, LenOr1(Len(questions)))

\* The threshold compared with > instead of >=.
is_passed_strict(score, threshold) == score > threshold * 100

\* score >= course.get("certificate_threshold", 70), the score in hundredths
is_passed(score, threshold) == score >= threshold * 100

\* The lookup falling back to the first quiz of the course.
find_quiz_or_first(c, quiz_id) ==
    LET found == {i \in DOMAIN c.quizzes : c.quizzes[i].id = quiz_id}
    IN  IF found = {} THEN (IF Len(c.quizzes) = 0 THEN 0 ELSE 1)
        ELSE CHOOSE i \in found : \A j \in found : i <= j

\* next((q for q in course.get("quizzes", []) if q.get("id") == sub.quiz_id), None)
find_quiz(c, quiz_id) ==
    LET found == {i \in DOMAIN c.quizzes : c.quizzes[i].id = quiz_id}
    IN  IF found = {} THEN 0 ELSE CHOOSE i \in found : \A j \in found : i <= j

\* f"LH-{uuid4().hex[:8].upper()}": eight hex digits drawn at random on every call.
CertificateCodes == {"LH-1A2B3C4D", "LH-9F8E7D6C"}

submit_quiz(p, authorization, sub) ==
    /\ Idle(p)
    /\ LET auth == require_auth(authorization)
           o == oid(sub.course_id)
           found == IF o.ok THEN find_course(o.id) ELSE {}
       IN
       \/ /\ auth.status # 200
          /\ resp' = HTTPException(p, "submit_quiz", sub, auth.status, auth.detail)
          /\ UNCHANGED <<quizresult, certificate>>
       \/ /\ auth.status = 200
          /\ ~ o.ok
          /\ resp' = HTTPException(p, "submit_quiz", sub, 400, "Invalid id")
          /\ UNCHANGED <<quizresult, certificate>>
       \/ /\ auth.status = 200
          /\ o.ok
          /\ found = {}
          /\ resp' = HTTPException(p, "submit_quiz", sub, 404, "Course not found")
          /\ UNCHANGED <<quizresult, certificate>>
       \/ /\ auth.status = 200
          /\ o.ok
          /\ \E i \in found :
               LET c == course[i]
                   qi == find_quiz(c, sub.quiz_id)
               IN
               \/ /\ qi = 0
                  /\ resp' = HTTPException(p, "submit_quiz", sub, 404, "Quiz not found")
                  /\ UNCHANGED <<quizresult, certificate>>
               \/ /\ qi # 0
                  /\ Len(quizresult) < MaxResults
                  /\ LET score == score_of(c.quizzes[qi].questions, sub.answers)
                         passed == is_passed(score, c.certificate_threshold)
                         result_doc == [user_id |-> auth.id, course_id |-> sub.course_id,
                                        quiz_id |-> sub.quiz_id, score_percent |-> score,
                                        answers |-> sub.answers, passed |-> passed]
                     IN
                     /\ quizresult' = Append(quizresult, result_doc)
                     /\ \/ /\ ~ passed
                           /\ UNCHANGED certificate
                           /\ resp' = Response(p, "submit_quiz", sub, 200,
                                               [result_id |-> Len(quizresult) + 1,
                                                score |-> score, passed |-> passed,
                                                certificate |-> << >>])
                        \/ /\ passed
                           /\ \E code \in CertificateCodes :
                                LET cert_doc == [user_id |-> auth.id,
                                                 course_id |-> sub.course_id,
                                                 quiz_id |-> sub.quiz_id,
                                                 score_percent |-> score,
                                                 certificate_code |-> code,
                                                 issued_at |-> now_utc]
                                IN
                                /\ certificate' = Append(certificate, cert_doc)
                                /\ resp' = Response(p, "submit_quiz", sub, 200,
                                                    [result_id |-> Len(quizresult) + 1,
                                                     score |-> score, passed |-> passed,
                                                     certificate |-> << cert_doc >>])
    /\ UNCHANGED <<user, tokens, now, course, lectureprogress, courseprogress, chatlog,
                   pc, loc>>

---------------------------------------------------------------------------
(* Chatbot *)

\* A message is its text and the keywords its stripped, lowercased text contains.
Messages ==
    { [text |-> "thanks!", contains |-> {}],
      [text |-> "How does State work?", contains |-> {"state"}],
      [text |-> "optimize my effect", contains |-> {"effect", "optimize"}] }

\* The rules in the order the handler tests them.
ChatRules ==
    << [keywords |-> {"state", "use state"}, tip |-> "useState returns [value, setValue]"],
       [keywords |-> {"effect"}, tip |-> "useEffect runs after render"],
       [keywords |-> {"performance", "optimize"}, tip |-> "Consider useMemo/useCallback"] >>

\* The tips of the rules that match, or the generic tip; " ".join(tips) is this list.
chat_tips(message) ==
    LET Matches(rule) == rule.keywords \cap message.contains # {}
        tips == SelectSeq(ChatRules, Matches)
    IN  IF Len(tips) = 0
        THEN << "Focus on one concept at a time" >>
        ELSE [i \in DOMAIN tips |-> tips[i].tip]

\* One reference for each of c.get("playlist", [])[:2]
chat_refs(c) ==
    [i \in 1..(IF Len(c.playlist) < 2 THEN Len(c.playlist) ELSE 2) |->
        [lecture_id |-> c.playlist[i].id, title |-> c.playlist[i].title,
         suggested_timestamp |-> 60]]

\* Only the exchanges that carry references are logged.
insert_chatlog_with_refs(log, msg_doc) ==
    IF msg_doc.refs = << >> THEN log ELSE Append(log, msg_doc)

\* db["chatlog"].insert_one(msg_doc)
insert_chatlog(log, msg_doc) == Append(log, msg_doc)

\* course_id "" is a request with no course_id (None and "" are both falsy).
chatbot(p, authorization, req) ==
    /\ Idle(p)
    /\ LET auth == require_auth(authorization)
           o == oid(req.course_id)
           found == IF o.ok THEN find_course(o.id) ELSE {}
           response == chat_tips(req.message)
       IN
       \/ /\ auth.status # 200
          /\ resp' = HTTPException(p, "chatbot", req, auth.status, auth.detail)
          /\ UNCHANGED chatlog
       \/ /\ auth.status = 200
          /\ req.course_id # ""
          /\ ~ o.ok
          /\ resp' = HTTPException(p, "chatbot", req, 400, "Invalid id")
          /\ UNCHANGED chatlog
       \/ /\ auth.status = 200
          /\ (req.course_id = "" \/ o.ok)
          /\ Len(chatlog) < MaxChatLog
          /\ LET refs == IF req.course_id = "" \/ found = {}
                         THEN << >>
                         ELSE chat_refs(course[CHOOSE i \in found : TRUE])
                 msg_doc == [user_id |-> auth.id, course_id |-> req.course_id,
                             prompt |-> req.message.text, response |-> response,
                             refs |-> refs, created_at |-> now_utc]
             IN
             /\ chatlog' = insert_chatlog(chatlog, msg_doc)
             /\ resp' = Response(p, "chatbot", req, 200,
                                 [reply |-> response, references |-> refs])
    /\ UNCHANGED <<user, tokens, now, course, lectureprogress, courseprogress,
                   quizresult, certificate, pc, loc>>

---------------------------------------------------------------------------
(* Initial states *)

\* A fresh deployment: every collection is empty.
InitAuth ==
    /\ user = << >>
    /\ tokens = << >>
    /\ now = 0
    /\ course = << >>
    /\ lectureprogress = {}
    /\ courseprogress = {}
    /\ quizresult = << >>
    /\ certificate = << >>
    /\ chatlog = << >>
    /\ pc = [p \in Procs |-> "idle"]
    /\ loc = [p \in Procs |-> NoLocals]
    /\ resp = NoResponse

\* The store after two users registered at time 0 (a state SpecAuth reaches, but
\* for the responses); the course collection is left to the module's own Init.
Registered ==
    /\ user = << [email |-> "a@x.io", password_hash |-> hash_password("pw1", "5a17")],
                 [email |-> "b@x.io", password_hash |-> hash_password("pw2", "c0de")] >>
    /\ tokens = << [user_id |-> 1, expires_at |-> TOKEN_TTL_HOURS],
                   [user_id |-> 2, expires_at |-> TOKEN_TTL_HOURS] >>
    /\ now = 0
    /\ lectureprogress = {}
    /\ courseprogress = {}
    /\ quizresult = << >>
    /\ certificate = << >>
    /\ chatlog = << >>
    /\ pc = [p \in Procs |-> "idle"]
    /\ loc = [p \in Procs |-> NoLocals]
    /\ resp = NoResponse

\* Passing scores a course document may ask for (schemas.py: 0 <= threshold <= 100).
Thresholds == {0, 70, 100}

---------------------------------------------------------------------------
(* The auth module *)

NextAuth ==
    \/ \E p \in Procs, email \in Emails, password \in Passwords :
          register_find_one(p, email, password)
    \/ \E p \in Procs : register_insert_user(p)
    \/ \E p \in Procs : register_insert_token(p)
    \/ \E p \in Procs, email \in Emails, password \in Passwords : login(p, email, password)
    \/ \E p \in Procs, authorization \in Authorizations : me(p, authorization)
    \/ Tick

SpecAuth == InitAuth /\ [][NextAuth]_vars

\* C1: a token is accepted by require_auth at every time strictly before its
\* expires_at and rejected with 401 "Token expired" at every time equal to or
\* later than expires_at, and a token that is expired stays expired.
C1_TokenValidUntilExpiresAt ==
    [][/\ (resp'.op = "me" /\ resp'.req.authorization \in DOMAIN tokens) =>
            LET tok == tokens[resp'.req.authorization] IN
            /\ (now < tok.expires_at => resp'.status = 200)
            /\ (now >= tok.expires_at =>
                  resp'.status = 401 /\ resp'.body.detail = "Token expired")
       /\ \A a \in DOMAIN tokens :
            require_auth(a).detail = "Token expired" =>
               (require_auth(a).detail = "Token expired")']_vars

\* C2: no two user documents share an email, whatever the interleaving of the
\* store calls of concurrent register requests.
C2_EmailUnique ==
    \A i, j \in DOMAIN user : i # j => user[i].email # user[j].email

---------------------------------------------------------------------------
(* The progress module *)

\* Playlists of 0..MaxLectures lectures; the quiz and the threshold are the demo's.
InitProgress ==
    /\ Registered
    /\ course \in {<< >>} \cup {<< CourseDoc(n, 2, 70) >> : n \in 0..MaxLectures}

\* Lecture ids sent by clients: those of the longest playlist and one of no playlist.
LectureIdStrings == 1..(MaxLectures + 1)

ProgressUpdates(lecture_ids) ==
    [lecture_id : lecture_ids, watched_seconds : {300}, completed : BOOLEAN]

\* The update requests are user 1's, or carry no bearer token: the lecture ids given
\* on the course id that may resolve, one lecture on each of the others.
StartUpdate(p, lecture_ids) ==
    \/ \E authorization \in {0, 1}, update \in ProgressUpdates(lecture_ids) :
          update_lecture_progress_upsert(p, authorization, "c1", update)
    \/ \E course_id \in {"c2", "zz"} :
          update_lecture_progress_upsert(p, 1, course_id,
              [lecture_id |-> 1, watched_seconds |-> 300, completed |-> TRUE])

GetProgress(p) ==
    \E authorization \in {0, 1}, course_id \in CourseIdStrings :
       get_course_progress(p, authorization, course_id)

\* Concurrent requests: the store calls of the processes interleave freely; the
\* updates are on the first two lecture ids.
NextProgress ==
    \E p \in Procs :
       \/ StartUpdate(p, {1, 2})
       \/ update_lecture_progress_find_course(p)
       \/ update_lecture_progress_find_completed(p)
       \/ update_lecture_progress_upsert_summary(p)
       \/ list_courses(p)

SpecProgress == InitProgress /\ [][NextProgress]_vars

\* No other process has a request in flight.
Alone(p) == \A q \in Procs \ {p} : Idle(q)

\* The requests run one at a time: none starts or continues while another is in flight.
NextProgressSeq ==
    \E p \in Procs :
       \/ Alone(p) /\ StartUpdate(p, LectureIdStrings)
       \/ Alone(p) /\ update_lecture_progress_find_course(p)
       \/ Alone(p) /\ update_lecture_progress_find_completed(p)
       \/ Alone(p) /\ update_lecture_progress_upsert_summary(p)
       \/ Alone(p) /\ GetProgress(p)
       \/ Alone(p) /\ list_courses(p)

SpecProgressSeq == InitProgress /\ [][NextProgressSeq]_vars

AllIdle == \A p \in Procs : Idle(p)

\* The course document a course id string resolves to, as a set (empty: none).
CoursesOf(course_id) == {course[i] : i \in {j \in DOMAIN course : course[j].id = course_id}}

\* C3: with the requests run one at a time, an update on a course of N >= 1 playlist
\* lectures of which the user has K distinct ones completed (and no other lecture)
\* returns and stores the percentage round(100*K/N, 2), the hundredth nearest to
\* 100*K/N, and exactly those K lecture ids; marking a completed lecture again
\* therefore changes neither.
C3_PercentageOfCompleted ==
    [][(resp'.op = "update" /\ resp'.status = 200) =>
          \A c \in CoursesOf(resp'.req.course_id) :
             LET N == Len(c.playlist)
                 done == {r.lecture_id : r \in {x \in lectureprogress' :
                                                  /\ x.user_id = resp'.req.user_id
                                                  /\ x.course_id = resp'.req.course_id
                                                  /\ x.completed}}
                 K == Cardinality(done)
                 pct == resp'.body.percentage
                 diff == pct * N - 10000 * K
             IN  (N >= 1 /\ done \subseteq PlaylistIds(c)) =>
                    /\ 2 * (IF diff < 0 THEN -diff ELSE diff) <= N
                    /\ resp'.body.completed = done
                    /\ \E d \in courseprogress' :
                          /\ d.user_id = resp'.req.user_id
                          /\ d.course_id = resp'.req.course_id
                          /\ d.percentage = pct
                          /\ d.completed_lecture_ids = done]_vars

\* Two of three lectures completed: 66.67.
C3_TwoOfThree ==
    /\ resp.op = "update"
    /\ resp.status = 200
    /\ resp.body.percentage = 6667
    /\ Cardinality(resp.body.completed) = 2
    /\ \E c \in CoursesOf(resp.req.course_id) : Len(c.playlist) = 3

\* C7: the summary upsert is last-writer-wins with no concurrency check: it stores
\* what its request read, whatever the lecture rows hold by then, so that the
\* summary left by two interleaved requests can differ from the aggregate of the rows.
C7_SummaryLastWriterWins ==
    [][(resp'.op = "update" /\ resp'.status = 200) =>
          \A d \in courseprogress' :
             (d.user_id = resp'.req.user_id /\ d.course_id = resp'.req.course_id) =>
                /\ d.completed_lecture_ids = loc[resp'.p].completed_ids
                /\ d.percentage = loc[resp'.p].percent]_vars

\* Both requests have finished and the summary is not the aggregate of the rows.
C7_StaleSummary ==
    /\ AllIdle
    /\ resp.op = "update"
    /\ resp.status = 200
    /\ \E d \in courseprogress :
          /\ d.course_id = "c1"
          /\ d.completed_lecture_ids # completed_lectures(d.user_id, d.course_id)
          /\ d.percentage # percent_of(completed_lectures(d.user_id, d.course_id),
                                       LenOr1(Len(course[1].playlist)))

\* C9: an update that fails (the course id does not resolve or is malformed) leaves
\* the store unchanged, so with no request in flight a course id that resolves to no
\* course has no lecture row and no summary, and getCourseProgress on it returns
\* the empty list and the zero-valued summary.
C9_FailedUpdateLeavesStore ==
    /\ AllIdle =>
          \A course_id \in CourseIdStrings :
             CoursesOf(course_id) = {} =>
                /\ \A r \in lectureprogress : r.course_id # course_id
                /\ \A d \in courseprogress : d.course_id # course_id
    /\ (resp.op = "get_course_progress" /\ resp.status = 200
          /\ CoursesOf(resp.req.course_id) = {}) =>
          /\ resp.body.lectures = {}
          /\ resp.body.course_progress.completed_lecture_ids = {}
          /\ resp.body.course_progress.percentage = 0

\* C10: every stored summary has 0 <= percentage <= 100 and only ids of lectures of
\* the course's playlist in completed_lecture_ids.
C10_SummaryWithinBounds ==
    \A d \in courseprogress :
       /\ 0 <= d.percentage
       /\ d.percentage <= 10000
       /\ \A c \in CoursesOf(d.course_id) : d.completed_lecture_ids \subseteq PlaylistIds(c)

---------------------------------------------------------------------------
(* The quiz / certificate module *)

\* Quizzes of 0..MaxQuestions questions under each threshold; the playlist is the demo's.
InitQuiz ==
    /\ Registered
    /\ course \in {<< >>} \cup
          {<< CourseDoc(3, k, t) >> : k \in 0..MaxQuestions, t \in Thresholds}

\* Answer sheets: every answer right, the last one wrong, a string for every
\* question, no answers at all.
AnswerSheets ==
    { [j \in 1..MaxQuestions |-> IntAnswer(0)],
      [j \in 1..MaxQuestions |-> IntAnswer(IF j = MaxQuestions THEN 1 ELSE 0)],
      [j \in 1..MaxQuestions |-> StrAnswer],
      << >> }

\* Every quiz id and answer sheet on the course id that may resolve, one submission
\* on each of the others.
QuizSubmissions ==
    [course_id : {"c1"}, quiz_id : {"q1", "q9"}, answers : AnswerSheets]
      \cup [course_id : {"c2", "zz"}, quiz_id : {"q1"},
            answers : {[j \in 1..MaxQuestions |-> IntAnswer(0)]}]

\* The handlers of this module are single actions: one client issues the requests.
Client == CHOOSE p \in Procs : TRUE

\* User 1 sends every submission, with or without the bearer token; user 2 sends the
\* all-correct sheet on quiz q1.
QuizCalls ==
    ({0, 1} \X QuizSubmissions)
      \cup {<<2, [course_id |-> "c1", quiz_id |-> "q1",
                  answers |-> [j \in 1..MaxQuestions |-> IntAnswer(0)]]>>}

NextQuiz ==
    \/ \E call \in QuizCalls : submit_quiz(Client, call[1], call[2])
    \/ list_courses(Client)

SpecQuiz == InitQuiz /\ [][NextQuiz]_vars

\* Every question of the quiz is answered with the int that is its answer.
AllCorrect(quiz, answers) ==
    \A j \in DOMAIN quiz.questions :
       /\ quiz.questions[j].id \in DOMAIN answers
       /\ answers[quiz.questions[j].id] = IntAnswer(quiz.questions[j].answer)

\* The quizzes a submission names.
QuizzesOf(sub) ==
    UNION {{c.quizzes[k] : k \in {i \in DOMAIN c.quizzes : c.quizzes[i].id = sub.quiz_id}} :
             c \in CoursesOf(sub.course_id)}

\* Score 100, passed, and the certificate minted, stored and returned inline.
ScoredFull ==
    /\ resp'.body.score = 10000
    /\ resp'.body.passed
    /\ Len(resp'.body.certificate) = 1
    /\ certificate' = Append(certificate, resp'.body.certificate[1])
    /\ Len(quizresult') = Len(quizresult) + 1
    /\ quizresult'[Len(quizresult')].score_percent = 10000
    /\ quizresult'[Len(quizresult')].passed

\* C4: a submission with all answers correct scores 100 on every quiz, whatever its
\* number of questions, is marked passed and gets a certificate inline (the
\* threshold of every course is <= 100).
C4_AllCorrectScores100 ==
    [][(resp'.op = "submit_quiz" /\ resp'.status = 200) =>
          \A quiz \in QuizzesOf(resp'.req) :
             AllCorrect(quiz, resp'.req.answers) => ScoredFull]_vars

\* C4, amended: the same for every quiz of at least one question.
C4_AllCorrectScores100_NonEmpty ==
    [][(resp'.op = "submit_quiz" /\ resp'.status = 200) =>
          \A quiz \in QuizzesOf(resp'.req) :
             (Len(quiz.questions) >= 1 /\ AllCorrect(quiz, resp'.req.answers)) =>
                ScoredFull]_vars

\* An all-correct submission on the two-question quiz under threshold 100 passed.
C4_FullScoreAtThreshold100 ==
    /\ resp.op = "submit_quiz"
    /\ resp.status = 200
    /\ resp.body.score = 10000
    /\ Len(resp.body.certificate) = 1
    /\ \E quiz \in QuizzesOf(resp.req) :
          Len(quiz.questions) = 2 /\ AllCorrect(quiz, resp.req.answers)
    /\ \E c \in CoursesOf(resp.req.course_id) : c.certificate_threshold = 100

\* C5: no two certificate documents carry the same certificate_code.
C5_CertificateCodesUnique ==
    \A i, j \in DOMAIN certificate :
       i # j => certificate[i].certificate_code # certificate[j].certificate_code

\* C6: a submission by an authenticated user whose course resolves and whose quiz_id
\* is the id of no quiz of that course fails with 404 "Quiz not found" and leaves
\* every collection as it was: no quiz result and no certificate is created.
C6_UnknownQuizNotFound ==
    [][(/\ resp'.op = "submit_quiz"
        /\ resp'.status # 401
        /\ CoursesOf(resp'.req.course_id) # {}
        /\ QuizzesOf(resp'.req) = {}) =>
          /\ resp'.status = 404
          /\ resp'.body.detail = "Quiz not found"
          /\ store' = store]_vars

\* Quiz q9 was submitted to the course after another submission was recorded.
C6_UnknownQuizRejected ==
    /\ resp.op = "submit_quiz"
    /\ resp.status = 404
    /\ resp.body.detail = "Quiz not found"
    /\ resp.req.quiz_id = "q9"
    /\ CoursesOf(resp.req.course_id) # {}
    /\ Len(quizresult) = 1

---------------------------------------------------------------------------
(* The chatbot module *)

InitChat ==
    /\ Registered
    /\ course \in {<< >>} \cup {<< CourseDoc(n, 2, 70) >> : n \in 0..MaxLectures}

\* Every message with no course_id, one message on each course id.
ChatRequests ==
    [course_id : {""}, message : Messages]
      \cup [course_id : CourseIdStrings,
            message : {[text |-> "How does State work?", contains |-> {"state"}]}]

\* User 1 sends every request, with or without the bearer token; user 2 sends one.
ChatCalls ==
    ({0, 1} \X ChatRequests)
      \cup {<<2, [course_id |-> "c1", message |-> [text |-> "thanks!", contains |-> {}]]>>}

NextChat ==
    \/ \E call \in ChatCalls : chatbot(Client, call[1], call[2])
    \/ list_courses(Client)

SpecChat == InitChat /\ [][NextChat]_vars

\* The log only grows at its end.
AppendOnly ==
    /\ Len(chatlog') >= Len(chatlog)
    /\ SubSeq(chatlog', 1, Len(chatlog)) = chatlog

====
